---------------------------- MODULE Spec2Model ----------------------------
(***************************************************************************)
(* Model of the skill-to-langchain converter (src/converter.py).           *)
(*                                                                         *)
(* Python strings are modelled as sequences of one-character strings, so   *)
(* that splitting, stripping, joining, substring search and the regular    *)
(* expressions of the converter are computed character by character.       *)
(* Every converter function is an operator; the actions apply the          *)
(* functions to an input document (or to a tool specification list) drawn  *)
(* from a bounded set in the initial state.                                *)
(***************************************************************************)
EXTENDS Naturals, Sequences, FiniteSets

VARIABLES
    content,     \* text of the skill document (skill_path.read_text())
    tools_spec,  \* list of ToolSpec dicts (extract_workflow_tools result / generate_workflow_tools argument)
    metadata,    \* dict returned by parse_skill_metadata
    commands,    \* list returned by extract_tool_commands
    wrappers,    \* the @tool definitions of the generated code, in emission order
    registry,    \* the text between the brackets of "tools = [...]" in the epilogue
    prompt,      \* the description interpolated in the prompt template
    op           \* the converter function applied last ("input" before any call)

vars == <<content, tools_spec, metadata, commands, wrappers, registry, prompt, op>>

(***************************************************************************)
(* Bounds of the model.                                                    *)
(***************************************************************************)
MaxCmds == 3    \* commands in the bash block of a workflow document
MaxSegs == 3    \* segments concatenated into a command template
MaxLines == 4   \* lines of a free-form document

\* commands[:3] in generate_agent_file
ToolCap == 3

(***************************************************************************)
(* Characters and Python string primitives.                                *)
(***************************************************************************)
\* Characters matched by \w among those the model's texts use.
WordChars ==
    {"a", "b", "c", "d", "e", "f", "g", "h", "i", "k", "l", "m", "n", "o",
     "p", "r", "s", "t", "u", "v", "w", "x", "y", "D", "N", "_"}

\* Characters str.split() and str.strip() treat as whitespace.
Whitespace == {" ", "\t", "\n"}

Min(S) == CHOOSE m \in S : \A n \in S : m <= n

\* s[i:].startswith(p), with 1-based i.
HasAt(s, i, p) ==
    /\ i >= 1
    /\ i + Len(p) - 1 <= Len(s)
    /\ SubSeq(s, i, i + Len(p) - 1) = p

\* Position of the first occurrence of p in s at or after from; 0 when none
\* (Python's s.find(p, from - 1) + 1).
Find(s, p, from) ==
    LET hits == {k \in from..Len(s) : HasAt(s, k, p)}
    IN IF hits = {} THEN 0 ELSE Min(hits)

\* p in s
Contains(s, p) == \E k \in 1..(Len(s) + 1) : HasAt(s, k, p)

\* sep.join(parts)
RECURSIVE Join(_, _)
Join(parts, sep) ==
    IF parts = <<>> THEN <<>>
    ELSE IF Len(parts) = 1 THEN parts[1]
    ELSE parts[1] \o sep \o Join(Tail(parts), sep)

\* s.split(sep) for a non-empty separator: always at least one piece.
RECURSIVE SplitOn(_, _)
SplitOn(s, sep) ==
    LET k == Find(s, sep, 1)
    IN IF k = 0 THEN <<s>>
       ELSE <<SubSeq(s, 1, k - 1)>> \o SplitOn(SubSeq(s, k + Len(sep), Len(s)), sep)

\* Faulty variant of SplitOnce: the split is made at the last separator.
SplitOnceAtLast(s, sep) ==
    LET hits == {k \in 1..Len(s) : HasAt(s, k, sep)}
        k == CHOOSE m \in hits : \A n \in hits : n <= m
    IN IF hits = {} THEN <<s>>
       ELSE <<SubSeq(s, 1, k - 1), SubSeq(s, k + Len(sep), Len(s))>>

\* s.split(sep, 1)
SplitOnce(s, sep) ==
    LET k == Find(s, sep, 1)
    IN IF k = 0 THEN <<s>>
       ELSE <<SubSeq(s, 1, k - 1), SubSeq(s, k + Len(sep), Len(s))>>

\* s.lstrip(), s.rstrip(), s.strip()
RECURSIVE LStrip(_)
LStrip(s) ==
    IF s # <<>> /\ s[1] \in Whitespace THEN LStrip(Tail(s)) ELSE s

RECURSIVE RStrip(_)
RStrip(s) ==
    IF s # <<>> /\ s[Len(s)] \in Whitespace THEN RStrip(SubSeq(s, 1, Len(s) - 1)) ELSE s

Strip(s) == LStrip(RStrip(s))

\* s.split(): the maximal runs of non-whitespace characters, in order.
RECURSIVE Split(_)
Split(s) ==
    LET t == LStrip(s)
        ends == {k \in 1..Len(t) : t[k] \in Whitespace}
        e == IF ends = {} THEN Len(t) + 1 ELSE Min(ends)
    IN IF t = <<>> THEN <<>>
       ELSE <<SubSeq(t, 1, e - 1)>> \o Split(SubSeq(t, e, Len(t)))

\* s.replace(old, new) for a non-empty old: left to right, non-overlapping.
RECURSIVE Replace(_, _, _)
Replace(s, old, new) ==
    LET k == Find(s, old, 1)
    IN IF k = 0 THEN s
       ELSE SubSeq(s, 1, k - 1) \o new
            \o Replace(SubSeq(s, k + Len(old), Len(s)), old, new)

\* s.startswith(p)
StartsWith(s, p) == HasAt(s, 1, p)

\* s.lower() on the letters the model's texts use.
LowerChar(c) == IF c = "D" THEN "d" ELSE IF c = "N" THEN "n" ELSE c

Lower(s) == [i \in 1..Len(s) |-> LowerChar(s[i])]

\* A Python dict is the sequence of its <<key, value>> items in insertion
\* order. dict.get(key, default):
Get(dict, key, default) ==
    LET at == {i \in 1..Len(dict) : dict[i][1] = key}
    IN IF at = {} THEN default ELSE dict[Min(at)][2]

\* dict[key] = value: replaces the value of a key already present.
Put(dict, key, value) ==
    IF \E i \in 1..Len(dict) : dict[i][1] = key
    THEN [i \in 1..Len(dict) |-> IF dict[i][1] = key THEN <<key, value>> ELSE dict[i]]
    ELSE Append(dict, <<key, value>>)

(***************************************************************************)
(* Literals of the source.                                                 *)
(***************************************************************************)
Dashes == <<"-", "-", "-">>
NL == <<"\n">>
\* The backquote character, which a TLA+ string literal cannot hold.
BackQuote == "BACKQUOTE"
Fence == <<BackQuote, BackQuote, BackQuote>>
BashFence == Fence \o <<"b", "a", "s", "h">>
NameKey == <<"n", "a", "m", "e">>
DescriptionKey == <<"d", "e", "s", "c", "r", "i", "p", "t", "i", "o", "n">>
Unknown == <<"u", "n", "k", "n", "o", "w", "n">>
NoDescription == <<"N", "o", " ">> \o DescriptionKey
Gh == <<"g", "h">>
Default == <<"d", "e", "f", "a", "u", "l", "t">>
WttrIn == <<"w", "t", "t", "r", ".", "i", "n">>
Underscore == <<"_">>
GetSuffix == <<"_", "g", "e", "t">>
DefKw == <<"d", "e", "f", " ">>
OpenParen == <<"(">>
CloseSig == <<")", " ", "-", ">", " ", "s", "t", "r", ":">>
StrType == <<":", " ", "s", "t", "r">>
CommaSpace == <<",", " ">>
Execute == <<"E", "x", "e", "c", "u", "t", "e", " ">>
CommandWord == <<" ", "c", "o", "m", "m", "a", "n", "d">>
ParamDoc == <<":", " ", "P", "a", "r", "a", "m", "e", "t", "e", "r", " ", "f", "o", "r",
              " ", "t", "h", "e", " ", "c", "o", "m", "m", "a", "n", "d">>
DocIndent == <<"\n", " ", " ", " ", " ">>
Space == <<" ">>
Dot == <<".">>

(***************************************************************************)
(* parse_skill_metadata                                                    *)
(***************************************************************************)
\* '^' under re.MULTILINE: the start of the text or just after a newline.
LineStart(s, i) == i = 1 \/ (i > 1 /\ s[i - 1] = "\n")

\* End of the shortest match of  ^---\n(.*?)\n---  starting at i: the
\* position of the closing "\n---", or 0 when the pattern does not match at i.
FrontmatterCloseAt(s, i) ==
    IF LineStart(s, i) /\ HasAt(s, i, Dashes \o NL)
    THEN Find(s, NL \o Dashes, i + 4)
    ELSE 0

\* re.search(r'^---\n(.*?)\n---', content, re.DOTALL | re.MULTILINE):
\* the leftmost start position with a match, 0 when there is none.
FrontmatterSearch(s) ==
    LET starts == {i \in 1..Len(s) : FrontmatterCloseAt(s, i) # 0}
    IN IF starts = {} THEN 0 ELSE Min(starts)

\* frontmatter_match.group(1)
FrontmatterGroup(s) ==
    LET i == FrontmatterSearch(s)
    IN SubSeq(s, i + 4, FrontmatterCloseAt(s, i) - 1)

\* The loop over frontmatter.split('\n'): later keys overwrite earlier ones.
RECURSIVE ParsePairs(_, _)
ParsePairs(lines, dict) ==
    IF lines = <<>> THEN dict
    ELSE LET line == lines[1]
             kv == SplitOnce(line, <<":">>)
         IN IF Contains(line, <<":">>)
            THEN ParsePairs(Tail(lines), Put(dict, Strip(kv[1]), Strip(kv[2])))
            ELSE ParsePairs(Tail(lines), dict)

parse_skill_metadata(text) ==
    IF FrontmatterSearch(text) # 0
    THEN ParsePairs(SplitOn(FrontmatterGroup(text), NL), <<>>)
    ELSE <<>>

(***************************************************************************)
(* extract_tool_commands                                                   *)
(***************************************************************************)
\* re.findall over the bash fence pattern (re.DOTALL), scanning from
\* position i: the groups of the successive non-overlapping matches.
RECURSIVE CodeBlocksFrom(_, _)
CodeBlocksFrom(s, i) ==
    LET open == BashFence \o NL
        opens == {k \in i..Len(s) :
                     HasAt(s, k, open) /\ Find(s, NL \o Fence, k + Len(open)) # 0}
        k == Min(opens)
        close == Find(s, NL \o Fence, k + Len(open))
    IN IF opens = {} THEN <<>>
       ELSE <<SubSeq(s, k + Len(open), close - 1)>>
            \o CodeBlocksFrom(s, close + Len(NL \o Fence))

\* The inner loop: stripped lines that are not empty and not comments.
RECURSIVE BlockCommands(_)
BlockCommands(lines) ==
    IF lines = <<>> THEN <<>>
    ELSE LET line == Strip(lines[1])
         IN IF line # <<>> /\ ~StartsWith(line, <<"#">>) /\ ~StartsWith(line, <<"/", "/">>)
            THEN <<line>> \o BlockCommands(Tail(lines))
            ELSE BlockCommands(Tail(lines))

RECURSIVE AllBlockCommands(_)
AllBlockCommands(blocks) ==
    IF blocks = <<>> THEN <<>>
    ELSE BlockCommands(SplitOn(blocks[1], NL)) \o AllBlockCommands(Tail(blocks))

extract_tool_commands(text) == AllBlockCommands(CodeBlocksFrom(text, 1))

(***************************************************************************)
(* extract_workflow_tools                                                  *)
(***************************************************************************)
\* primary_cmd == 'gh' and len(parts) > 1
IsGhCommand(parts) == parts[1] = Gh /\ Len(parts) > 1

\* Faulty variant of ActionOf: the action read one token too far.
ActionShifted(parts) == IF Len(parts) > 3 THEN parts[4] ELSE Default

\* parts[2] if len(parts) > 2 else 'default'
ActionOf(parts) == IF Len(parts) > 2 THEN parts[3] ELSE Default

\* f"{primary_cmd}_{subcommand}_{action}"
ToolPattern(parts) ==
    parts[1] \o Underscore \o parts[2] \o Underscore \o ActionOf(parts)

\* The dict appended for a gh command.
GhTool(skill_name, cmd, parts) ==
    [name |-> skill_name \o Underscore \o parts[2] \o Underscore \o ActionOf(parts),
     command |-> cmd,
     description |-> Execute \o parts[2] \o Space \o ActionOf(parts) \o CommandWord]

\* The dict appended for any other command.
PrimaryTool(skill_name, cmd, parts) ==
    [name |-> skill_name \o Underscore \o parts[1],
     command |-> cmd,
     description |-> Execute \o parts[1] \o CommandWord]

\* Faulty variant of MarkSeen: the pattern is not recorded.
MarkSeenForgets(seen, pattern) == seen

\* seen_patterns.add(pattern)
MarkSeen(seen, pattern) == seen \cup {pattern}

\* Faulty variant of AddTool: the tool is inserted at the head of the list.
AddToolInFront(tools, tool) == <<tool>> \o tools

\* tools.append(tool)
AddTool(tools, tool) == Append(tools, tool)

\* The loop over commands, from the state (tools, seen_patterns).
RECURSIVE ResolveLoop(_, _, _, _)
ResolveLoop(cmds, skill_name, tools, seen) ==
    IF cmds = <<>> THEN tools
    ELSE LET cmd == cmds[1]
             parts == Split(cmd)
             rest == Tail(cmds)
         IN IF parts = <<>>
            THEN ResolveLoop(rest, skill_name, tools, seen)
            ELSE IF IsGhCommand(parts)
            THEN IF ToolPattern(parts) \notin seen
                 THEN ResolveLoop(rest, skill_name,
                          AddTool(tools, GhTool(skill_name, cmd, parts)),
                          MarkSeen(seen, ToolPattern(parts)))
                 ELSE ResolveLoop(rest, skill_name, tools, seen)
            ELSE IF parts[1] \notin seen
                 THEN ResolveLoop(rest, skill_name,
                          AddTool(tools, PrimaryTool(skill_name, cmd, parts)),
                          MarkSeen(seen, parts[1]))
                 ELSE ResolveLoop(rest, skill_name, tools, seen)

extract_workflow_tools(text) ==
    ResolveLoop(extract_tool_commands(text),
                Get(parse_skill_metadata(text), NameKey, Unknown), <<>>, {})

(***************************************************************************)
(* Placeholder extraction (the two re.findall calls)                       *)
(***************************************************************************)
\* Last position of the maximal run of \w characters starting at k
\* (k - 1 when s[k] is not a word character).
RECURSIVE WordRunEnd(_, _)
WordRunEnd(s, k) ==
    IF k <= Len(s) /\ s[k] \in WordChars THEN WordRunEnd(s, k + 1) ELSE k - 1

\* Faulty variant of PlaceholderAt: the closing character is not required.
PlaceholderUnclosedAt(s, k, open, close) ==
    LET e == WordRunEnd(s, k + 1)
    IN IF s[k] = open /\ e >= k + 1 THEN e + 1 ELSE 0

\* Position of the closing character of a match of  open(\w+)close  that
\* starts at k, 0 when there is no match at k.
PlaceholderAt(s, k, open, close) ==
    LET e == WordRunEnd(s, k + 1)
    IN IF s[k] = open /\ e >= k + 1 /\ e + 1 <= Len(s) /\ s[e + 1] = close
       THEN e + 1
       ELSE 0

\* re.findall(r'\{(\w+)\}', s) from position i: the names, in order.
RECURSIVE FindallBrace(_, _)
FindallBrace(s, i) ==
    LET hits == {k \in i..Len(s) : PlaceholderAt(s, k, "{", "}") # 0}
        k == Min(hits)
        e == PlaceholderAt(s, k, "{", "}")
    IN IF hits = {} THEN <<>>
       ELSE <<SubSeq(s, k + 1, e - 1)>> \o FindallBrace(s, e + 1)

\* re.findall(r'<(\w+)>|\{(\w+)\}', s) from position i: one pair of groups
\* per match, the group that did not take part being the empty string.
RECURSIVE FindallEither(_, _)
FindallEither(s, i) ==
    LET angle(k) == PlaceholderAt(s, k, "<", ">")
        brace(k) == PlaceholderAt(s, k, "{", "}")
        hits == {k \in i..Len(s) : angle(k) # 0 \/ brace(k) # 0}
        k == Min(hits)
    IN IF hits = {} THEN <<>>
       ELSE IF angle(k) # 0
       THEN <<<<SubSeq(s, k + 1, angle(k) - 1), <<>>>>>> \o FindallEither(s, angle(k) + 1)
       ELSE <<<<<<>>, SubSeq(s, k + 1, brace(k) - 1)>>>> \o FindallEither(s, brace(k) + 1)

\* [p for group in params for p in group if p]
RECURSIVE Flatten(_)
Flatten(groups) ==
    IF groups = <<>> THEN <<>>
    ELSE SelectSeq(groups[1], LAMBDA p : p # <<>>) \o Flatten(Tail(groups))

\* params of generate_langchain_tool and of generate_workflow_tools
LangchainParams(command) == FindallBrace(command, 1)

WorkflowParams(command) == Flatten(FindallEither(command, 1))

(***************************************************************************)
(* generate_langchain_tool and generate_workflow_tools                     *)
(***************************************************************************)
\* ', '.join(f'{p}: str' for p in params)
ParamList(params) ==
    Join([i \in 1..Len(params) |-> params[i] \o StrType], CommaSpace)

\* '\n    '.join(f'{p}: Parameter for the command' for p in params)
ParamDocs(params) ==
    Join([i \in 1..Len(params) |-> params[i] \o ParamDoc], DocIndent)

\* "def {name}({param_list}) -> str:"
Signature(name, param_list) ==
    DefKw \o name \o OpenParen \o param_list \o CloseSig

Braced(p) == <<"{">> \o p \o <<"}">>

Angled(p) == <<"<">> \o p \o <<">">>

\* The replacement loop of generate_langchain_tool.
RECURSIVE LangchainCommandStr(_, _)
LangchainCommandStr(command_str, params) ==
    IF params = <<>> THEN command_str
    ELSE LangchainCommandStr(
             Replace(command_str, Braced(params[1]), Braced(params[1])),
             Tail(params))

\* Faulty variant of WorkflowCommandStr: only the brace form is rewritten.
WorkflowCommandStrBraceOnly(command_str, params) ==
    LangchainCommandStr(command_str, params)

\* The replacement loop of generate_workflow_tools.
RECURSIVE WorkflowCommandStr(_, _)
WorkflowCommandStr(command_str, params) ==
    IF params = <<>> THEN command_str
    ELSE WorkflowCommandStr(
             Replace(Replace(command_str, Angled(params[1]), Braced(params[1])),
                     Braced(params[1]), Braced(params[1])),
             Tail(params))

\* The @tool definition generate_langchain_tool returns, by slot.
generate_langchain_tool(tool_name, command_template) ==
    LET params == LangchainParams(command_template)
    IN [name |-> tool_name,
        params |-> params,
        signature |-> Signature(tool_name, ParamList(params)),
        description |-> Execute \o tool_name \o CommandWord \o Dot,
        has_args |-> TRUE,
        param_docs |-> ParamDocs(params),
        command |-> LangchainCommandStr(command_template, params),
        fstring |-> TRUE]

\* tool.get('description', f"Execute {name}")
ToolDescription(tool) ==
    IF "description" \in DOMAIN tool THEN tool.description ELSE Execute \o tool.name

\* The @tool definition generate_workflow_tools emits for one ToolSpec.
WorkflowTool(tool) ==
    LET params == WorkflowParams(tool.command)
    IN IF params # <<>>
       THEN [name |-> tool.name,
             params |-> params,
             signature |-> Signature(tool.name, ParamList(params)),
             description |-> ToolDescription(tool),
             has_args |-> TRUE,
             param_docs |-> ParamDocs(params),
             command |-> WorkflowCommandStr(tool.command, params),
             fstring |-> TRUE]
       ELSE [name |-> tool.name,
             params |-> <<>>,
             signature |-> Signature(tool.name, <<>>),
             description |-> ToolDescription(tool),
             has_args |-> FALSE,
             param_docs |-> <<>>,
             command |-> tool.command,
             fstring |-> FALSE]

generate_workflow_tools(spec) == [i \in 1..Len(spec) |-> WorkflowTool(spec[i])]

(***************************************************************************)
(* generate_agent_file and generate_agent_file_v3                          *)
(***************************************************************************)
\* The loop over commands[:3]: the wrapper of the first command that
\* mentions wttr.in, and nothing when there is none.
FirstCommands(cmds) == SubSeq(cmds, 1, IF Len(cmds) < ToolCap THEN Len(cmds) ELSE ToolCap)

WeatherTools(skill_name, cmds) ==
    LET first == FirstCommands(cmds)
        hits == {i \in 1..Len(first) : Contains(first[i], WttrIn)}
    IN IF hits = {} THEN <<>>
       ELSE <<generate_langchain_tool(skill_name \o GetSuffix, first[Min(hits)])>>

\* description.lower()
PromptDescription(meta) == Lower(Get(meta, DescriptionKey, NoDescription))

generate_agent_file(text) ==
    LET meta == parse_skill_metadata(text)
        skill_name == Get(meta, NameKey, Unknown)
    IN [wrappers |-> WeatherTools(skill_name, extract_tool_commands(text)),
        registry |-> skill_name \o GetSuffix,
        prompt |-> PromptDescription(meta)]

\* [tool['name'] for tool in tools_spec]
ToolNames(spec) == [i \in 1..Len(spec) |-> spec[i].name]

generate_agent_file_v3(text) ==
    LET meta == parse_skill_metadata(text)
        spec == extract_workflow_tools(text)
    IN [wrappers |-> generate_workflow_tools(spec),
        registry |-> Join(ToolNames(spec), CommaSpace),
        prompt |-> PromptDescription(meta)]

(***************************************************************************)
(* Inputs.                                                                 *)
(***************************************************************************)
\* All sequences over S of length at most n.
SeqsUpTo(S, n) == UNION {[1..k -> S] : k \in 0..n}

\* Concatenation of a sequence of texts.
Concat(parts) == Join(parts, <<>>)

\* Workflow commands: gh commands of one, two, three and four tokens,
\* tokens with underscores, commands sharing a primary token, a command
\* separated by runs of blanks and tabs, and a wttr.in command.
CommandPool ==
    { Gh,
      Join(<<Gh, <<"a">>>>, Space),
      Join(<<Gh, <<"a">>, <<"a">>>>, Space),
      Join(<<Gh, <<"a", "_", "a">>, <<"a">>>>, Space),
      Join(<<Gh, <<"a">>, <<"a", "_", "a">>>>, Space),
      <<"a", "_", "a">>,
      Join(<<<<"a", "_", "a">>, <<"{", "x", "}">>>>, Space),
      <<"g", "h", "_", "a", "_", "a">>,
      Gh \o <<" ", " ", "a", "\t", "a", " ", "<", "x", ">">>,
      <<"c", " ">> \o WttrIn \o <<"/", "{", "x", "}">> }

\* Skill names of the front matter; the empty name stands for a document
\* without front matter.
SkillNames == {<<>>, <<"s">>}

\* A workflow document: optional front matter, then one bash block.
FrontMatter(name) ==
    IF name = <<>> THEN <<>>
    ELSE Dashes \o NL \o NameKey \o <<":", " ">> \o name \o NL
         \o DescriptionKey \o <<":", " ", "D", "o">> \o NL \o Dashes \o NL

BashBlock(cmds) ==
    IF cmds = <<>> THEN <<>>
    ELSE BashFence \o NL \o Join(cmds, NL) \o NL \o Fence \o NL

WorkflowDoc(name, cmds) == FrontMatter(name) \o BashBlock(cmds)

\* Command templates: concatenations of placeholders in both syntaxes,
\* stray delimiters and plain characters.
Segments ==
    { <<"{", "x", "}">>, <<"<", "x", ">">>, <<"{", "y", "}">>, <<"<", "y", ">">>,
      <<"{">>, <<"}">>, <<"<">>, <<">">>, <<"x">>, <<"/">> }

Templates == {Concat(segs) : segs \in SeqsUpTo(Segments, MaxSegs)}

ToolName == <<"t">>

\* ToolSpec lists handed to the synthesizers directly, with and without
\* the optional description.
DirectToolSpecs ==
    {<<[name |-> ToolName, command |-> t]>> : t \in Templates}
    \cup {<<[name |-> ToolName, command |-> t, description |-> <<"D", "o">>]>> :
             t \in Templates}

\* Free-form documents: any lines of the pool, joined by newlines.
LinePool ==
    { Dashes, <<"k", ":", " ", "v", ":", "w">>, <<"x">>, <<>>, Dashes \o <<"x">>,
      <<" ", "k", " ", ":", "z", " ">> }

FreeDocs == {Join(lines, NL) : lines \in SeqsUpTo(LinePool, MaxLines)}

\* Documents with fences: bash fences, closing fences, prose, a comment,
\* a blank line and a command with surrounding blanks.
BlockLinePool ==
    { BashFence, Fence, <<"x">>, <<"#", " ", "c">>, <<>>,
      <<" ">> \o Gh \o <<" ", "a", " ">> }

BlockDocs == {Join(lines, NL) : lines \in SeqsUpTo(BlockLinePool, MaxLines)}

(***************************************************************************)
(* State machine: the converter's functions applied to an input.           *)
(***************************************************************************)
Blank ==
    /\ metadata = <<>>
    /\ commands = <<>>
    /\ wrappers = <<>>
    /\ registry = <<>>
    /\ prompt = <<>>
    /\ op = "input"

Init ==
    /\ \E n \in SkillNames : \E cmds \in SeqsUpTo(CommandPool, MaxCmds) :
          content = WorkflowDoc(n, cmds)
    /\ tools_spec = <<>>
    /\ Blank

InitParams ==
    /\ content = <<>>
    /\ tools_spec \in DirectToolSpecs
    /\ Blank

InitDoc ==
    /\ content \in FreeDocs
    /\ tools_spec = <<>>
    /\ Blank

InitBlocks ==
    /\ content \in BlockDocs
    /\ tools_spec = <<>>
    /\ Blank

ParseSkillMetadata ==
    /\ op = "input"
    /\ metadata' = parse_skill_metadata(content)
    /\ op' = "parse_skill_metadata"
    /\ UNCHANGED <<content, tools_spec, commands, wrappers, registry, prompt>>

ExtractToolCommands ==
    /\ op = "input"
    /\ commands' = extract_tool_commands(content)
    /\ op' = "extract_tool_commands"
    /\ UNCHANGED <<content, tools_spec, metadata, wrappers, registry, prompt>>

ExtractWorkflowTools ==
    /\ op = "input"
    /\ tools_spec = <<>>
    /\ commands' = extract_tool_commands(content)
    /\ metadata' = parse_skill_metadata(content)
    /\ tools_spec' = extract_workflow_tools(content)
    /\ op' = "extract_workflow_tools"
    /\ UNCHANGED <<content, wrappers, registry, prompt>>

GenerateLangchainTool ==
    /\ op = "input"
    /\ tools_spec # <<>>
    /\ wrappers' = <<generate_langchain_tool(tools_spec[1].name, tools_spec[1].command)>>
    /\ op' = "generate_langchain_tool"
    /\ UNCHANGED <<content, tools_spec, metadata, commands, registry, prompt>>

GenerateWorkflowTools ==
    /\ \/ op = "extract_workflow_tools"
       \/ op = "input" /\ tools_spec # <<>>
    /\ wrappers' = generate_workflow_tools(tools_spec)
    /\ op' = "generate_workflow_tools"
    /\ UNCHANGED <<content, tools_spec, metadata, commands, registry, prompt>>

GenerateAgentFile ==
    /\ op = "input"
    /\ tools_spec = <<>>
    /\ metadata' = parse_skill_metadata(content)
    /\ commands' = extract_tool_commands(content)
    /\ LET code == generate_agent_file(content)
       IN /\ wrappers' = code.wrappers
          /\ registry' = code.registry
          /\ prompt' = code.prompt
    /\ op' = "generate_agent_file"
    /\ UNCHANGED <<content, tools_spec>>

GenerateAgentFileV3 ==
    /\ op = "input"
    /\ tools_spec = <<>>
    /\ metadata' = parse_skill_metadata(content)
    /\ commands' = extract_tool_commands(content)
    /\ tools_spec' = extract_workflow_tools(content)
    /\ LET code == generate_agent_file_v3(content)
       IN /\ wrappers' = code.wrappers
          /\ registry' = code.registry
          /\ prompt' = code.prompt
    /\ op' = "generate_agent_file_v3"
    /\ UNCHANGED content

\* A workflow document through the resolver and the two generators.
Next ==
    \/ ExtractWorkflowTools
    \/ GenerateWorkflowTools
    \/ GenerateAgentFile
    \/ GenerateAgentFileV3

Spec == Init /\ [][Next]_vars

\* One ToolSpec through the two synthesizers.
NextParams ==
    \/ GenerateLangchainTool
    \/ GenerateWorkflowTools

SpecParams == InitParams /\ [][NextParams]_vars

\* A free-form document through the two parsers.
NextDoc ==
    \/ ParseSkillMetadata
    \/ ExtractToolCommands

SpecDoc == InitDoc /\ [][NextDoc]_vars

\* A document with fences through the command extractor.
NextBlocks == ExtractToolCommands

SpecBlocks == InitBlocks /\ [][NextBlocks]_vars

(***************************************************************************)
(* Vocabulary of the properties.                                           *)
(***************************************************************************)
\* The resolver has run: tools_spec and commands hold its result and input.
Resolved ==
    op \in {"extract_workflow_tools", "generate_workflow_tools", "generate_agent_file_v3"}

\* The pattern key of a command: (gh, subcommand, action) for a gh command
\* of at least two tokens, the action being the third token or the
\* sentinel; otherwise the primary token alone.
PatternKey(cmd) ==
    LET parts == Split(cmd)
    IN IF parts[1] = Gh /\ Len(parts) >= 2
       THEN <<Gh, parts[2], IF Len(parts) >= 3 THEN parts[3] ELSE Default>>
       ELSE <<parts[1], <<>>, <<>>>>

\* Indices of the tools whose command has the given key.
ToolsWithKey(key) ==
    {i \in DOMAIN tools_spec : PatternKey(tools_spec[i].command) = key}

\* Index of the first occurrence of cmd in the command list (0 when absent).
FirstIndex(cmd) ==
    LET at == {k \in DOMAIN commands : commands[k] = cmd}
    IN IF at = {} THEN 0 ELSE Min(at)

\* s holds a well-formed placeholder open name close somewhere.
HasPlaceholder(s, open, close) ==
    \E i \in 1..Len(s) : \E j \in (i + 2)..Len(s) :
        /\ s[i] = open
        /\ s[j] = close
        /\ \A m \in (i + 1)..(j - 1) : s[m] \in WordChars

NoPlaceholder(s) == ~HasPlaceholder(s, "{", "}") /\ ~HasPlaceholder(s, "<", ">")

\* s with every placeholder  from name to  rewritten as  open name close.
RECURSIVE Resyntax(_, _, _, _, _)
Resyntax(s, from, to, open, close) ==
    LET starts == {i \in 1..Len(s) :
                      /\ s[i] = from
                      /\ \E j \in (i + 2)..Len(s) :
                            /\ s[j] = to
                            /\ \A m \in (i + 1)..(j - 1) : s[m] \in WordChars}
        i == Min(starts)
        j == Min({n \in (i + 2)..Len(s) : s[n] = to})
    IN IF starts = {} THEN s
       ELSE SubSeq(s, 1, i - 1) \o <<open>> \o SubSeq(s, i + 1, j - 1) \o <<close>>
            \o Resyntax(SubSeq(s, j + 1, Len(s)), from, to, open, close)

ToAngle(s) == Resyntax(s, "{", "}", "<", ">")

ToBrace(s) == Resyntax(s, "<", ">", "{", "}")

(***************************************************************************)
(* Properties.                                                             *)
(***************************************************************************)
\* C1: after extract_workflow_tools, at most one ToolSpec carries any given
\* pattern key, and the command a ToolSpec stores is the first command of
\* the document with that key; later commands with the key are dropped.
C1_FirstCommandPerKey ==
    Resolved =>
        /\ \A i, j \in DOMAIN tools_spec :
              PatternKey(tools_spec[i].command) = PatternKey(tools_spec[j].command) => i = j
        /\ \A i \in DOMAIN tools_spec :
              \E k \in DOMAIN commands :
                 /\ commands[k] = tools_spec[i].command
                 /\ \A m \in 1..(k - 1) :
                       PatternKey(commands[m]) # PatternKey(commands[k])

\* C1 witness: two different commands share a key, the second one was
\* dropped and the first one kept.
C1_Witness ==
    /\ op = "extract_workflow_tools"
    /\ \E m, n \in DOMAIN commands :
          /\ m < n
          /\ commands[m] # commands[n]
          /\ PatternKey(commands[m]) = PatternKey(commands[n])
          /\ \E i \in DOMAIN tools_spec : tools_spec[i].command = commands[m]
          /\ \A i \in DOMAIN tools_spec : tools_spec[i].command # commands[n]

\* C2: no two ToolSpecs of one resolution pass have the same name.
C2_UniqueNames ==
    Resolved =>
        \A i, j \in DOMAIN tools_spec :
            tools_spec[i].name = tools_spec[j].name => i = j

\* C3: every distinct pattern key of the command list has exactly one
\* ToolSpec; commands with different keys are never merged.
C3_OneToolPerKey ==
    Resolved =>
        \A k \in DOMAIN commands :
            Cardinality(ToolsWithKey(PatternKey(commands[k]))) = 1

\* C4: the ToolSpecs appear in the document order of their commands, and
\* the generators emit the wrappers in the order of the ToolSpecs.
C4_DocumentOrder ==
    /\ Resolved =>
          /\ \A i \in DOMAIN tools_spec : FirstIndex(tools_spec[i].command) # 0
          /\ \A i, j \in DOMAIN tools_spec :
                i < j => FirstIndex(tools_spec[i].command) < FirstIndex(tools_spec[j].command)
    /\ op \in {"generate_workflow_tools", "generate_agent_file_v3"} =>
          /\ Len(wrappers) = Len(tools_spec)
          /\ \A i \in DOMAIN tools_spec : wrappers[i].name = tools_spec[i].name

\* C4 witness: a generated file with at least two tools, differently
\* named, resolved from a list that lost a command.
C4_Witness ==
    /\ op = "generate_agent_file_v3"
    /\ Len(tools_spec) >= 2
    /\ Len(commands) > Len(tools_spec)
    /\ wrappers[1].name # wrappers[2].name

\* C5: a kept gh command with a second token is named
\* skill_token2_token3 (skill_token2_default with two tokens only), any
\* other kept command skill_token1; skill is the metadata name, or
\* 'unknown' when the metadata has none.
C5_ToolNames ==
    Resolved =>
        \A i \in DOMAIN tools_spec :
            LET parts == Split(tools_spec[i].command)
                skill == Get(metadata, NameKey, Unknown)
            IN tools_spec[i].name =
                  IF parts[1] = Gh /\ Len(parts) >= 2
                  THEN skill \o Underscore \o parts[2] \o Underscore
                       \o (IF Len(parts) >= 3 THEN parts[3] ELSE Default)
                  ELSE skill \o Underscore \o parts[1]

\* C5 witness: a document without a name resolved into tools for a bare
\* gh, a two-token gh command and a gh command of more than three tokens.
C5_Witness ==
    /\ op = "extract_workflow_tools"
    /\ metadata = <<>>
    /\ \E i, j, k \in DOMAIN tools_spec :
          /\ tools_spec[i].command = Gh
          /\ Len(Split(tools_spec[j].command)) = 2
          /\ Split(tools_spec[j].command)[1] = Gh
          /\ Len(Split(tools_spec[k].command)) > 3
          /\ Split(tools_spec[k].command)[1] = Gh

\* C6: the parameter list of a generated signature holds every
\* placeholder name exactly once.
C6_ParametersOnce ==
    op \in {"generate_langchain_tool", "generate_workflow_tools"} =>
        \A w \in DOMAIN wrappers :
            \A i, j \in DOMAIN wrappers[w].params :
                wrappers[w].params[i] = wrappers[w].params[j] => i = j

\* C7: rewriting every {name} as <name>, or every <name> as {name}, leaves
\* the inferred parameter list of either synthesizer unchanged.
C7_SyntaxInvariant ==
    /\ op = "generate_langchain_tool" =>
          /\ wrappers[1].params = LangchainParams(ToAngle(tools_spec[1].command))
          /\ wrappers[1].params = LangchainParams(ToBrace(tools_spec[1].command))
    /\ op = "generate_workflow_tools" =>
          \A i \in DOMAIN tools_spec :
              /\ wrappers[i].params = WorkflowParams(ToAngle(tools_spec[i].command))
              /\ wrappers[i].params = WorkflowParams(ToBrace(tools_spec[i].command))

\* C8: a ToolSpec whose command has no placeholder is synthesized, with the
\* signature "def name() -> str:" and no parameter at all.
C8_NoPlaceholderNoParameter ==
    op = "generate_workflow_tools" =>
        /\ Len(wrappers) = Len(tools_spec)
        /\ \A i \in DOMAIN tools_spec :
              NoPlaceholder(tools_spec[i].command) =>
                  /\ wrappers[i].params = <<>>
                  /\ wrappers[i].signature =
                        DefKw \o tools_spec[i].name \o <<"(", ")">>
                        \o <<" ", "-", ">", " ", "s", "t", "r", ":">>

\* C8 witness: a command with stray delimiters and word characters but no
\* placeholder was synthesized.
C8_Witness ==
    /\ op = "generate_workflow_tools"
    /\ Len(tools_spec) = 1
    /\ NoPlaceholder(tools_spec[1].command)
    /\ Contains(tools_spec[1].command, <<"{", "x">>)
    /\ wrappers[1].params = <<>>

\* C9: the registry of a generated file lists exactly the names of the
\* wrappers emitted in that file, in the same order.
C9_RegistryMatchesWrappers ==
    op \in {"generate_agent_file", "generate_agent_file_v3"} =>
        registry = Join(ToolNames(wrappers), CommaSpace)

\* C10: metadata comes only from a block that opens with a '---' first
\* line and closes at the first later line that is exactly '---'; any
\* other document yields the empty mapping.
C10_OnlyLeadingBlock ==
    op = "parse_skill_metadata" =>
        LET lines == SplitOn(content, NL)
            closers == {j \in 2..Len(lines) : lines[j] = Dashes}
        IN IF lines[1] = Dashes /\ closers # {}
           THEN metadata = ParsePairs(SubSeq(lines, 2, Min(closers) - 1), <<>>)
           ELSE metadata = <<>>

\* The lines of the block parse_skill_metadata matched (no line when it
\* matched none).
BlockLines ==
    IF FrontmatterSearch(content) = 0 THEN <<>>
    ELSE SplitOn(FrontmatterGroup(content), NL)

HasColon(line) == \E i \in 1..Len(line) : line[i] = ":"

FirstColon(line) == Min({i \in 1..Len(line) : line[i] = ":"})

\* The trimmed text before the first colon and the trimmed text after it.
KeyOf(line) == Strip(SubSeq(line, 1, FirstColon(line) - 1))

ValueOf(line) == Strip(SubSeq(line, FirstColon(line) + 1, Len(line)))

\* C11: every entry of the metadata is the (key, value) of a block line
\* with a colon, split at its first colon and trimmed, later colons kept in
\* the value; every such line has its key in the metadata, bound to the
\* value of the last line with that key; lines without a colon give
\* nothing.
C11_SplitAtFirstColon ==
    op = "parse_skill_metadata" =>
        /\ \A e \in DOMAIN metadata :
              \E n \in DOMAIN BlockLines :
                 /\ HasColon(BlockLines[n])
                 /\ metadata[e] = <<KeyOf(BlockLines[n]), ValueOf(BlockLines[n])>>
        /\ \A n \in DOMAIN BlockLines :
              HasColon(BlockLines[n]) =>
                 \E e \in DOMAIN metadata :
                    /\ metadata[e][1] = KeyOf(BlockLines[n])
                    /\ \E m \in n..Len(BlockLines) :
                          /\ HasColon(BlockLines[m])
                          /\ KeyOf(BlockLines[m]) = KeyOf(BlockLines[n])
                          /\ metadata[e][2] = ValueOf(BlockLines[m])
                          /\ \A q \in (m + 1)..Len(BlockLines) :
                                HasColon(BlockLines[q]) =>
                                   KeyOf(BlockLines[q]) # KeyOf(BlockLines[m])
        /\ \A e, f \in DOMAIN metadata : metadata[e][1] = metadata[f][1] => e = f

\* C11 witness: a leading block with a line whose value holds a colon and
\* a line without a colon, parsed into the single entry k -> v:w.
C11_Witness ==
    /\ op = "parse_skill_metadata"
    /\ content = Join(<<Dashes, <<"k", ":", " ", "v", ":", "w">>, <<"x">>, Dashes>>, NL)
    /\ metadata = << <<<<"k">>, <<"v", ":", "w">>>> >>

\* A line kept as a command: not blank and not starting, after its leading
\* blanks, with '#' or '//'.
IsCommandLine(line) ==
    /\ Strip(line) # <<>>
    /\ LStrip(line)[1] # "#"
    /\ ~(Len(LStrip(line)) >= 2 /\ LStrip(line)[1] = "/" /\ LStrip(line)[2] = "/")

\* The command lines between each '```bash' line and the next '```' line,
\* in document order; inside tells whether lines[1] lies in an open block.
RECURSIVE FencedCommands(_, _)
FencedCommands(lines, inside) ==
    IF lines = <<>> THEN <<>>
    ELSE IF inside
    THEN IF lines[1] = Fence
         THEN FencedCommands(Tail(lines), FALSE)
         ELSE (IF IsCommandLine(lines[1]) THEN <<Strip(lines[1])>> ELSE <<>>)
              \o FencedCommands(Tail(lines), TRUE)
    ELSE FencedCommands(Tail(lines),
             /\ lines[1] = BashFence
             /\ \E j \in 2..Len(lines) : lines[j] = Fence)

\* C12: extract_tool_commands returns exactly the command lines of the
\* blocks opened by a '```bash' line and closed by the next '```' line, in
\* document order, and nothing from outside such a block.
C12_OnlyFencedCommands ==
    op = "extract_tool_commands" =>
        commands = FencedCommands(SplitOn(content, NL), FALSE)

\* Position i of s opens (closes) a placeholder written with the given
\* delimiters.
OpensPlaceholder(s, i, open, close) ==
    /\ s[i] = open
    /\ \E j \in (i + 2)..Len(s) :
          /\ s[j] = close
          /\ \A m \in (i + 1)..(j - 1) : s[m] \in WordChars

ClosesPlaceholder(s, j, open, close) ==
    /\ s[j] = close
    /\ \E i \in 1..(j - 2) :
          /\ s[i] = open
          /\ \A m \in (i + 1)..(j - 1) : s[m] \in WordChars

\* The command with every placeholder delimiter, of either syntax, turned
\* into the matching brace, and every other character kept.
BraceTemplate(s) ==
    [i \in 1..Len(s) |->
        IF OpensPlaceholder(s, i, "<", ">") \/ OpensPlaceholder(s, i, "{", "}") THEN "{"
        ELSE IF ClosesPlaceholder(s, i, "<", ">") \/ ClosesPlaceholder(s, i, "{", "}") THEN "}"
        ELSE s[i]]

\* C13: for a ToolSpec with at least one parameter, the template that
\* generate_workflow_tools embeds (in an f-string) has {p} wherever the
\* command had <p> or {p}, leaves no <p> of an inferred parameter p, and
\* is otherwise the command unchanged.
C13_TemplateSubstitution ==
    op = "generate_workflow_tools" =>
        \A i \in DOMAIN tools_spec :
            wrappers[i].params # <<>> =>
                /\ wrappers[i].fstring
                /\ wrappers[i].command = BraceTemplate(tools_spec[i].command)
                /\ \A n \in DOMAIN wrappers[i].params :
                      /\ ~Contains(wrappers[i].command, Angled(wrappers[i].params[n]))
                      /\ Contains(wrappers[i].command, Braced(wrappers[i].params[n]))

\* C13 witness: a command with one placeholder in each syntax and a stray
\* delimiter was synthesized, and its template differs from the command.
C13_Witness ==
    /\ op = "generate_workflow_tools"
    /\ Len(tools_spec) = 1
    /\ tools_spec[1].command = <<"<", "x", ">", "{", "y", "}", "<">>
    /\ wrappers[1].params = <<<<"x">>, <<"y">>>>
    /\ wrappers[1].command = <<"{", "x", "}", "{", "y", "}", "<">>

=============================================================================
